---- MODULE Spec2Model ----
(***************************************************************************)
(* Control loop of train_fastdvdnet.py: main() as a state machine whose    *)
(* program counter pc walks the statements of the epoch loop and of the    *)
(* minibatch loop, together with the checkpoint file of the run directory  *)
(* and the process lifecycle (abort, restart with --resume_training).      *)
(* The helpers imported from train_common (resume_training, lr_scheduler,  *)
(* save_model_checkpoint, log_train_psnr, validate_and_log) are modelled   *)
(* from their contracts in spec.md sections 4.1 to 4.4.                    *)
(* The network weights and the optimizer moments are abstracted to         *)
(* counters of the in-place mutations applied to them.                     *)
(***************************************************************************)
EXTENDS Integers, Sequences, FiniteSets, TLC

\* ------------------------------------------------------------- bounds
MaxEpochs == 4
MaxMilestone == 3
MaxSaveEvery == 2
NumMinibatches == 2
MaxRestarts == 1
ImgLen == 2
MaxPixel == 2

\* --------------------------------------------------- program constants
\* --lr default 1e-3, in units of 1e-6
LrBase == 1000
\* optim.Adam(model.parameters(), ...) builds one parameter group
NumGroups == 1

VARIABLES
    args,             \* RunConfiguration of the current process (argparse result)
    pc,               \* position of the process in main()
    epoch,            \* loop variable of `for epoch in range(start_epoch, epochs)`
    i,                \* loop variable of `for i, data in enumerate(loader_train, 0)`
    training_params,  \* TrainingState: step, start_epoch, no_orthog
    model,            \* ModelParameters: updates, orthog (mutation counts), training (mode)
    optimizer,        \* OptimizerState: lr per parameter group, number of steps taken
    current_lr,       \* rate returned by the last lr_scheduler call
    ckpt,             \* the checkpoint file of the run directory, or None
    restarts,         \* number of process restarts so far
    failedAt,         \* pc at which the process aborted, "none" otherwise
    completed,        \* last epoch trained, validated and saved post-validation (-1: none)
    firstStep,        \* step value the current process started from
    epochFirstStep,   \* step value at the first minibatch of the current epoch
    logSeq,           \* steps at which log_train_psnr ran in the current process
    orthSeq,          \* steps at which svd_orthogonalization ran in the current process
    iterTrace,        \* operations performed so far in the current minibatch iteration
    resetAt,          \* epoch at which reset_orthog suspended an enabled orthogonalization
                      \* in this process (-1: never)
    resetStep,        \* step value at that moment (-1: never)
    cadenceAfterReset,\* a cadence step was processed in a later epoch than resetAt
    clean,            \* no process of this run has aborted
    hist,             \* the --epochs values of the processes of this run that finished
    epochTrace,       \* end-of-epoch operations performed so far in the current epoch
    preCkpt,          \* the pre-validation checkpoint written in the current epoch, or None
    epochsRun,        \* epochs the current process has entered, in order
    valSeq,           \* epochs the current process has validated, in order
    saves,            \* number of checkpoints the current process has written
    closed,           \* number of times the current process has closed the logger
    firstEpoch,       \* start_epoch returned by resume_training in the current process
    resumedFrom,      \* kind of checkpoint the current process resumed from
    ckptRole,         \* kind of the checkpoint on disk: "none", "pre" or "post"
    img1, img2,       \* arguments of a psnr call
    psnr_value        \* result of the psnr call, or None

vars == <<args, pc, epoch, i, training_params, model, optimizer, current_lr, ckpt,
          restarts, failedAt, completed, firstStep, epochFirstStep, logSeq, orthSeq,
          iterTrace, resetAt, resetStep, cadenceAfterReset, clean, hist, epochTrace,
          preCkpt, epochsRun, valSeq, saves, closed, firstEpoch, resumedFrom, ckptRole,
          img1, img2, psnr_value>>

mainVars == <<args, pc, epoch, i, training_params, model, optimizer, current_lr, ckpt,
              restarts, failedAt, completed, firstStep, epochFirstStep, logSeq, orthSeq,
              iterTrace, resetAt, resetStep, cadenceAfterReset, clean, hist,
              epochTrace, preCkpt, epochsRun, valSeq, saves, closed, firstEpoch,
              resumedFrom, ckptRole>>

psnrVars == <<img1, img2, psnr_value>>

None == [kind |-> "none"]

Groups == 1..NumGroups

\* milestone pairs the command line can give, well-ordered or not
Milestones == (1..MaxMilestone) \X (1..(MaxMilestone + 1))

Ceil2(n) == (n + 1) \div 2

\* ----------------------------------------------------------- helpers

\* lr_scheduler(epoch, args): spec.md 4.1
lr_scheduler(e, a) ==
    [current_lr   |-> IF e < a.milestone[1] THEN LrBase
                      ELSE IF e < a.milestone[2] THEN LrBase \div 10
                      ELSE LrBase \div 100,
     reset_orthog |-> e \in {a.milestone[1], a.milestone[2]}]

\* save_model_checkpoint(model, args, optimizer, training_params, epoch): spec.md 4.4
save_model_checkpoint(m, o, tp) ==
    [kind            |-> "ckpt",
     state_dict      |-> [updates |-> m.updates, orthog |-> m.orthog],
     optimizer       |-> o,
     training_params |-> tp]

\* TrainingState of a new run: spec.md 4.4 ("start a new run from epoch 0, step 0")
NewTrainingParams(a) == [step |-> 0, start_epoch |-> 0, no_orthog |-> a.no_orthog]

\* model = FastDVDnet(): freshly initialised weights
NewModel == [updates |-> 0, orthog |-> 0, training |-> TRUE]

\* optimizer = optim.Adam(model.parameters(), lr=args['lr'])
NewOptimizer == [lr |-> [g \in Groups |-> LrBase], state |-> 0]

\* for param_group in optimizer.param_groups: param_group["lr"] = current_lr
SetGroupsKeep(o, rate) == o
SetGroups(o, rate) == [o EXCEPT !.lr = [g \in Groups |-> rate]]

\* if reset_orthog: training_params['no_orthog'] = True
ApplyResetToggle(tp, reset) == IF reset THEN [tp EXCEPT !.no_orthog = ~@] ELSE tp
ApplyReset(tp, reset) == IF reset THEN [tp EXCEPT !.no_orthog = TRUE] ELSE tp

\* training_params['step'] % args['save_every'] == 0
IsCadenceAlways(step, a) == TRUE
IsCadence(step, a) == step % a.save_every = 0

\* if not training_params['no_orthog']
OrthogEnabledAlways(tp) == TRUE
OrthogEnabled(tp) == ~tp.no_orthog

\* training_params['step'] += 1
NextStepSkip(step) == step + 2
NextStep(step) == step + 1

\* training_params['start_epoch'] = epoch + 1
NextStartEpochSame(e) == e
NextStartEpochSkip(e) == e + 2
NextStartEpoch(e) == e + 1

\* save_training_steps = [16314, 16400, 16841, 17357, 17929, 20709, 20968]
save_training_steps == {16314, 16400, 16841, 17357, 17929, 20709, 20968}

\* what a debug dump leaves in the trace of its iteration: the images were written,
\* or "Error saving image" was printed
DumpEvents == {"dump", "dump_error"}

\* lines 219-229: save_image_with_absolute_path; ok tells whether os.makedirs and
\* img_pil.save succeed. The try/except turns a failure into a printed message.
save_image_unguarded(ok) == IF ok THEN "dump" ELSE "raise"
save_image_with_absolute_path(ok) == IF ok THEN "dump" ELSE "dump_error"

\* the process holds no training state (before construction)
NoParams == [step |-> 0, start_epoch |-> 0, no_orthog |-> FALSE]
NoModel == [updates |-> 0, orthog |-> 0, training |-> FALSE]
NoOptimizer == [lr |-> [g \in Groups |-> 0], state |-> 0]

\* positions of main() at which the process is executing
MinibatchPcs == {"zero_grad", "forward", "loss", "backward", "opt_step", "dump",
                 "results", "inc"}
EpochEndPcs == {"eval", "save1", "validate", "set_start", "save2"}
RunningPcs == {"start", "resume", "epoch_head", "sched", "set_lr", "batch_head",
               "close"} \cup MinibatchPcs \cup EpochEndPcs

\* the flags violate milestone[0] < milestone[1] < epochs
BadConfig == ~(args.milestone[1] < args.milestone[2] /\ args.milestone[2] < args.epochs)

\* ------------------------------------------------------------- psnr
Images == [1..ImgLen -> 0..MaxPixel]

RECURSIVE SumSq(_, _, _)
SumSq(a, b, n) ==
    IF n = 0 THEN 0 ELSE (a[n] - b[n]) * (a[n] - b[n]) + SumSq(a, b, n - 1)

\* F.mse_loss(img1, img2), as the numerator over ImgLen * MaxPixel^2
mse_loss(a, b) == SumSq(a, b, ImgLen)

psnrNoGuard(a, b) == [kind |-> "log", mse |-> mse_loss(a, b)]
psnr(a, b) ==
    IF mse_loss(a, b) = 0
    THEN [kind |-> "inf"]
    ELSE [kind |-> "log", mse |-> mse_loss(a, b)]

\* --------------------------------------------------------------- Init
IdlePsnr == img1 = [k \in 1..ImgLen |-> 0] /\ img2 = [k \in 1..ImgLen |-> 0]
            /\ psnr_value = None

InitMain ==
    /\ args \in [epochs : 0..MaxEpochs, milestone : Milestones, no_orthog : BOOLEAN,
                 save_every : 1..MaxSaveEvery, resume_training : {FALSE}]
    /\ pc = "start"
    /\ epoch = 0
    /\ i = 0
    /\ training_params = NoParams
    /\ model = NoModel
    /\ optimizer = NoOptimizer
    /\ current_lr = 0
    /\ ckpt = None
    /\ restarts = 0
    /\ failedAt = "none"
    /\ completed = -1
    /\ firstStep = 0
    /\ epochFirstStep = 0
    /\ logSeq = <<>>
    /\ orthSeq = <<>>
    /\ iterTrace = <<>>
    /\ resetAt = -1
    /\ resetStep = -1
    /\ cadenceAfterReset = FALSE
    /\ clean = TRUE
    /\ hist = <<>>
    /\ epochTrace = <<>>
    /\ preCkpt = None
    /\ epochsRun = <<>>
    /\ valSeq = <<>>
    /\ saves = 0
    /\ closed = 0
    /\ firstEpoch = 0
    /\ resumedFrom = "none"
    /\ ckptRole = "none"

Init == InitMain /\ IdlePsnr


\* ------------------------------------------------------------ actions
ghostVars == <<restarts, failedAt, clean, hist>>
resetVars == <<resetAt, resetStep>>
procVars == <<epochsRun, valSeq, saves, closed, firstEpoch, resumedFrom>>
traceVars == <<epochTrace, preCkpt, epochsRun, valSeq, saves, closed, firstEpoch,
               resumedFrom, ckptRole>>

\* lines 36-66: datasets, loggers, model, criterion and optimizer are created
Construct ==
    /\ pc = "start"
    /\ model' = NewModel
    /\ optimizer' = NewOptimizer
    /\ pc' = "resume"
    /\ UNCHANGED <<args, epoch, i, training_params, current_lr, ckpt, completed,
                   firstStep, epochFirstStep, logSeq, orthSeq, iterTrace, resetVars,
                   cadenceAfterReset>>
    /\ UNCHANGED ghostVars
    /\ UNCHANGED traceVars

\* resume_training(args, model, optimizer): spec.md 4.4 and 4.5 step 1.
\* With --resume_training and a checkpoint in the run directory the snapshot is
\* restored into the model, the optimizer and the TrainingState; otherwise a new
\* run starts from epoch 0, step 0.
resume_training(a, c, m, o) ==
    IF a.resume_training /\ c # None
    THEN [training_params |-> c.training_params,
          model           |-> [m EXCEPT !.updates = c.state_dict.updates,
                                        !.orthog = c.state_dict.orthog],
          optimizer       |-> c.optimizer]
    ELSE [training_params |-> NewTrainingParams(a),
          model           |-> m,
          optimizer       |-> o]

\* line 69: start_epoch, training_params = resume_training(args, model, optimizer)
Resume ==
    /\ pc = "resume"
    /\ LET r == resume_training(args, ckpt, model, optimizer) IN
       /\ training_params' = r.training_params
       /\ model' = r.model
       /\ optimizer' = r.optimizer
    /\ epoch' = training_params'.start_epoch
    /\ firstStep' = training_params'.step
    /\ epochFirstStep' = training_params'.step
    /\ pc' = "epoch_head"
    /\ UNCHANGED <<args, i, current_lr, ckpt, completed, logSeq, orthSeq, iterTrace,
                   resetVars, cadenceAfterReset>>
    /\ UNCHANGED ghostVars
    /\ firstEpoch' = training_params'.start_epoch
    /\ resumedFrom' = IF args.resume_training THEN ckptRole ELSE "none"
    /\ UNCHANGED <<epochTrace, preCkpt, epochsRun, valSeq, saves, closed, ckptRole>>

\* epoch in range(start_epoch, args['epochs'])
InRangeInclusive(e, a) == e <= a.epochs
InRange(e, a) == e < a.epochs

\* line 73: for epoch in range(start_epoch, args['epochs'])
EpochHead ==
    /\ pc = "epoch_head"
    /\ pc' = IF InRange(epoch, args) THEN "sched" ELSE "close"
    /\ epochFirstStep' = training_params.step
    /\ UNCHANGED <<args, epoch, i, training_params, model, optimizer, current_lr, ckpt,
                   completed, firstStep, logSeq, orthSeq, iterTrace, resetVars,
                   cadenceAfterReset>>
    /\ UNCHANGED ghostVars
    /\ UNCHANGED traceVars

\* lines 75-77: query the scheduler, set no_orthog on reset_orthog
Sched ==
    /\ pc = "sched"
    /\ LET r == lr_scheduler(epoch, args) IN
       /\ current_lr' = r.current_lr
       /\ training_params' = ApplyReset(training_params, r.reset_orthog)
       /\ LET suspends == r.reset_orthog /\ ~training_params.no_orthog /\ resetAt = -1
          IN /\ resetAt' = IF suspends THEN epoch ELSE resetAt
             /\ resetStep' = IF suspends THEN training_params.step ELSE resetStep
    /\ pc' = "set_lr"
    /\ UNCHANGED <<args, epoch, i, model, optimizer, ckpt, completed, firstStep,
                   epochFirstStep, logSeq, orthSeq, iterTrace, cadenceAfterReset>>
    /\ UNCHANGED ghostVars
    /\ epochsRun' = Append(epochsRun, epoch)
    /\ epochTrace' = <<>>
    /\ preCkpt' = None
    /\ UNCHANGED <<valSeq, saves, closed, firstEpoch, resumedFrom, ckptRole>>

\* lines 80-82: apply the rate to every parameter group
SetLr ==
    /\ pc = "set_lr"
    /\ optimizer' = SetGroups(optimizer, current_lr)
    /\ i' = 0
    /\ pc' = "batch_head"
    /\ UNCHANGED <<args, epoch, training_params, model, current_lr, ckpt, completed,
                   firstStep, epochFirstStep, logSeq, orthSeq, iterTrace, resetVars,
                   cadenceAfterReset>>
    /\ UNCHANGED ghostVars
    /\ UNCHANGED traceVars

\* line 86: for i, data in enumerate(loader_train, 0)
BatchHead ==
    /\ pc = "batch_head"
    /\ pc' = IF i < NumMinibatches THEN "zero_grad" ELSE "eval"
    /\ iterTrace' = <<>>
    /\ UNCHANGED <<args, epoch, i, training_params, model, optimizer, current_lr, ckpt,
                   completed, firstStep, epochFirstStep, logSeq, orthSeq, resetVars,
                   cadenceAfterReset>>
    /\ UNCHANGED ghostVars
    /\ UNCHANGED traceVars

\* a statement of the minibatch body that changes no training state
BodyStep(from, to, event) ==
    /\ pc = from
    /\ pc' = to
    /\ iterTrace' = Append(iterTrace, event)
    /\ UNCHANGED <<args, epoch, i, training_params, optimizer, current_lr, ckpt,
                   completed, firstStep, epochFirstStep, logSeq, orthSeq, resetVars,
                   cadenceAfterReset>>
    /\ UNCHANGED ghostVars
    /\ UNCHANGED traceVars

\* lines 89-92: model.train(); optimizer.zero_grad()
ZeroGrad ==
    /\ BodyStep("zero_grad", "forward", "zero_grad")
    /\ model' = [model EXCEPT !.training = TRUE]

\* lines 96-115: normalize_augment, noise map, out_train = model(imgn_train, noise_map)
Forward ==
    /\ BodyStep("forward", "loss", "forward")
    /\ UNCHANGED model

\* line 118: loss = criterion(gt_train, out_train) / (N*2)
Loss ==
    /\ BodyStep("loss", "backward", "loss")
    /\ UNCHANGED model

\* line 119: loss.backward()
Backward ==
    /\ BodyStep("backward", "opt_step", "backward")
    /\ UNCHANGED model

OptStepTwice ==
    /\ pc = "opt_step"
    /\ model' = [model EXCEPT !.updates = @ + 2]
    /\ optimizer' = [optimizer EXCEPT !.state = @ + 2]
    /\ iterTrace' = Append(iterTrace, "opt_step")
    /\ pc' = "dump"
    /\ UNCHANGED <<args, epoch, i, training_params, current_lr, ckpt, completed,
                   firstStep, epochFirstStep, logSeq, orthSeq, resetVars,
                   cadenceAfterReset>>
    /\ UNCHANGED ghostVars
    /\ UNCHANGED traceVars

\* line 120: optimizer.step()
OptStep ==
    /\ pc = "opt_step"
    /\ model' = [model EXCEPT !.updates = @ + 1]
    /\ optimizer' = [optimizer EXCEPT !.state = @ + 1]
    /\ iterTrace' = Append(iterTrace, "opt_step")
    /\ pc' = "dump"
    /\ UNCHANGED <<args, epoch, i, training_params, current_lr, ckpt, completed,
                   firstStep, epochFirstStep, logSeq, orthSeq, resetVars,
                   cadenceAfterReset>>
    /\ UNCHANGED ghostVars
    /\ UNCHANGED traceVars

\* lines 122-130: debug image dump at the hardcoded steps (showImage2, lines 204-217,
\* for every image of the batch). An exception that leaves save_image_with_absolute_path
\* would propagate out of main().
Dump ==
    /\ pc = "dump"
    /\ \E ok \in BOOLEAN :
          LET out == IF training_params.step \in save_training_steps
                     THEN save_image_with_absolute_path(ok) ELSE "skip"
          IN /\ iterTrace' = IF out \in DumpEvents THEN Append(iterTrace, out)
                             ELSE iterTrace
             /\ pc' = IF out = "raise" THEN "aborted" ELSE "results"
             /\ failedAt' = IF out = "raise" THEN pc ELSE failedAt
             /\ clean' = (clean /\ out # "raise")
    /\ UNCHANGED <<args, epoch, i, training_params, model, optimizer, current_lr, ckpt,
                   completed, firstStep, epochFirstStep, logSeq, orthSeq, resetVars,
                   cadenceAfterReset, restarts, hist>>
    /\ UNCHANGED traceVars

\* lines 143-156: on a cadence step, orthogonalize unless no_orthog, then log_train_psnr
Results ==
    /\ pc = "results"
    /\ LET cad == IsCadence(training_params.step, args)
           orth == cad /\ OrthogEnabled(training_params)
       IN
       /\ model' = IF orth THEN [model EXCEPT !.orthog = @ + 1] ELSE model
       /\ orthSeq' = IF orth THEN Append(orthSeq, training_params.step) ELSE orthSeq
       /\ logSeq' = IF cad THEN Append(logSeq, training_params.step) ELSE logSeq
       /\ iterTrace' = iterTrace \o (IF orth THEN <<"orthog">> ELSE <<>>)
                                 \o (IF cad THEN <<"log">> ELSE <<>>)
       /\ cadenceAfterReset' = (cadenceAfterReset
                                \/ (cad /\ resetAt # -1 /\ epoch > resetAt))
    /\ pc' = "inc"
    /\ UNCHANGED <<args, epoch, i, training_params, optimizer, current_lr, ckpt,
                   completed, firstStep, epochFirstStep, resetVars>>
    /\ UNCHANGED ghostVars
    /\ UNCHANGED traceVars

IncStepSaves ==
    /\ pc = "inc"
    /\ training_params' = [training_params EXCEPT !.step = NextStep(@)]
    /\ iterTrace' = Append(iterTrace, "inc")
    /\ i' = i + 1
    /\ ckpt' = save_model_checkpoint(model, optimizer, training_params')
    /\ pc' = "batch_head"
    /\ UNCHANGED <<args, epoch, model, optimizer, current_lr, completed,
                   firstStep, epochFirstStep, logSeq, orthSeq, resetVars,
                   cadenceAfterReset>>
    /\ UNCHANGED ghostVars
    /\ UNCHANGED traceVars

\* line 158: training_params['step'] += 1, then the loop takes the next batch
IncStep ==
    /\ pc = "inc"
    /\ training_params' = [training_params EXCEPT !.step = NextStep(@)]
    /\ iterTrace' = Append(iterTrace, "inc")
    /\ i' = i + 1
    /\ pc' = "batch_head"
    /\ UNCHANGED <<args, epoch, model, optimizer, current_lr, ckpt, completed,
                   firstStep, epochFirstStep, logSeq, orthSeq, resetVars,
                   cadenceAfterReset>>
    /\ UNCHANGED ghostVars
    /\ UNCHANGED traceVars

EvalSkip ==
    /\ pc = "eval"
    /\ pc' = "save1"
    /\ UNCHANGED <<args, epoch, i, training_params, model, optimizer, current_lr, ckpt,
                   completed, firstStep, epochFirstStep, logSeq, orthSeq, iterTrace,
                   resetVars, cadenceAfterReset>>
    /\ UNCHANGED ghostVars
    /\ UNCHANGED traceVars

\* line 161: model.eval()
Eval ==
    /\ pc = "eval"
    /\ model' = [model EXCEPT !.training = FALSE]
    /\ pc' = "save1"
    /\ UNCHANGED <<args, epoch, i, training_params, optimizer, current_lr, ckpt,
                   completed, firstStep, epochFirstStep, logSeq, orthSeq, iterTrace,
                   resetVars, cadenceAfterReset>>
    /\ UNCHANGED ghostVars
    /\ epochTrace' = Append(epochTrace, "eval")
    /\ UNCHANGED <<preCkpt, ckptRole>>
    /\ UNCHANGED procVars

Save1Skip ==
    /\ pc = "save1"
    /\ pc' = "validate"
    /\ UNCHANGED <<args, epoch, i, training_params, model, optimizer, current_lr, ckpt,
                   completed, firstStep, epochFirstStep, logSeq, orthSeq, iterTrace,
                   resetVars, cadenceAfterReset>>
    /\ UNCHANGED ghostVars
    /\ UNCHANGED traceVars

\* line 164: save_model_checkpoint(...) "just in case validation fails"
Save1 ==
    /\ pc = "save1"
    /\ ckpt' = save_model_checkpoint(model, optimizer, training_params)
    /\ pc' = "validate"
    /\ UNCHANGED <<args, epoch, i, training_params, model, optimizer, current_lr,
                   completed, firstStep, epochFirstStep, logSeq, orthSeq, iterTrace,
                   resetVars, cadenceAfterReset>>
    /\ UNCHANGED ghostVars
    /\ epochTrace' = Append(epochTrace, "save1")
    /\ preCkpt' = ckpt'
    /\ ckptRole' = "pre"
    /\ saves' = saves + 1
    /\ UNCHANGED <<epochsRun, valSeq, closed, firstEpoch, resumedFrom>>

\* lines 167-177: validate_and_log(...)
Validate ==
    /\ pc = "validate"
    /\ pc' = "set_start"
    /\ UNCHANGED <<args, epoch, i, training_params, model, optimizer, current_lr, ckpt,
                   completed, firstStep, epochFirstStep, logSeq, orthSeq, iterTrace,
                   resetVars, cadenceAfterReset>>
    /\ UNCHANGED ghostVars
    /\ epochTrace' = Append(epochTrace, "validate")
    /\ valSeq' = Append(valSeq, epoch)
    /\ UNCHANGED <<preCkpt, epochsRun, saves, closed, firstEpoch, resumedFrom, ckptRole>>

SetStartRebuilds ==
    /\ pc = "set_start"
    /\ training_params' = [NoParams EXCEPT !.start_epoch = epoch + 1]
    /\ pc' = "save2"
    /\ UNCHANGED <<args, epoch, i, model, optimizer, current_lr, ckpt, completed,
                   firstStep, epochFirstStep, logSeq, orthSeq, iterTrace, resetVars,
                   cadenceAfterReset>>
    /\ UNCHANGED ghostVars
    /\ epochTrace' = Append(epochTrace, "set_start")
    /\ UNCHANGED <<preCkpt, ckptRole>>
    /\ UNCHANGED procVars

\* line 180: training_params['start_epoch'] = epoch + 1
SetStart ==
    /\ pc = "set_start"
    /\ training_params' = [training_params EXCEPT !.start_epoch = NextStartEpoch(epoch)]
    /\ pc' = "save2"
    /\ UNCHANGED <<args, epoch, i, model, optimizer, current_lr, ckpt, completed,
                   firstStep, epochFirstStep, logSeq, orthSeq, iterTrace, resetVars,
                   cadenceAfterReset>>
    /\ UNCHANGED ghostVars
    /\ epochTrace' = Append(epochTrace, "set_start")
    /\ UNCHANGED <<preCkpt, ckptRole>>
    /\ UNCHANGED procVars

\* line 181: save_model_checkpoint(...), then the epoch loop advances
Save2 ==
    /\ pc = "save2"
    /\ ckpt' = save_model_checkpoint(model, optimizer, training_params)
    /\ completed' = epoch
    /\ epoch' = epoch + 1
    /\ pc' = "epoch_head"
    /\ UNCHANGED <<args, i, training_params, model, optimizer, current_lr, firstStep,
                   epochFirstStep, logSeq, orthSeq, iterTrace, resetVars,
                   cadenceAfterReset>>
    /\ UNCHANGED ghostVars
    /\ epochTrace' = Append(epochTrace, "save2")
    /\ ckptRole' = "post"
    /\ saves' = saves + 1
    /\ UNCHANGED <<preCkpt, epochsRun, valSeq, closed, firstEpoch, resumedFrom>>

\* lines 184-188: elapsed time, close_logger(logger); main returns
Close ==
    /\ pc = "close"
    /\ pc' = "done"
    /\ hist' = Append(hist, args.epochs)
    /\ UNCHANGED <<args, epoch, i, training_params, model, optimizer, current_lr, ckpt,
                   completed, firstStep, epochFirstStep, logSeq, orthSeq, iterTrace,
                   resetVars, cadenceAfterReset, restarts, failedAt, clean>>
    /\ closed' = closed + 1
    /\ UNCHANGED <<epochTrace, preCkpt, epochsRun, valSeq, saves, firstEpoch,
                   resumedFrom, ckptRole>>

\* an exception propagates out of main(), or the process is terminated
Abort ==
    /\ pc \in RunningPcs
    /\ failedAt' = pc
    /\ pc' = "aborted"
    /\ clean' = FALSE
    /\ UNCHANGED <<args, epoch, i, training_params, model, optimizer, current_lr, ckpt,
                   completed, firstStep, epochFirstStep, logSeq, orthSeq, iterTrace,
                   resetVars, cadenceAfterReset, restarts, hist>>
    /\ UNCHANGED traceVars

\* --epochs values the operator restarts with: the same total, or a total N
\* whose first half Ceil2(N) has just been run
RestartEpochs ==
    {args.epochs} \cup {n \in 0..MaxEpochs : Ceil2(n) = args.epochs}

\* lines 239-292: the program is started again on the same run directory
\* with --resume_training
Restart ==
    /\ pc \in {"done", "aborted"}
    /\ restarts < MaxRestarts
    /\ \E n \in RestartEpochs :
           args' = [args EXCEPT !.epochs = n, !.resume_training = TRUE]
    /\ restarts' = restarts + 1
    /\ pc' = "start"
    /\ failedAt' = "none"
    /\ epoch' = 0
    /\ i' = 0
    /\ training_params' = NoParams
    /\ model' = NoModel
    /\ optimizer' = NoOptimizer
    /\ current_lr' = 0
    /\ firstStep' = 0
    /\ epochFirstStep' = 0
    /\ logSeq' = <<>>
    /\ orthSeq' = <<>>
    /\ iterTrace' = <<>>
    /\ resetAt' = -1
    /\ resetStep' = -1
    /\ cadenceAfterReset' = FALSE
    /\ epochTrace' = <<>>
    /\ preCkpt' = None
    /\ epochsRun' = <<>>
    /\ valSeq' = <<>>
    /\ saves' = 0
    /\ closed' = 0
    /\ firstEpoch' = 0
    /\ resumedFrom' = "none"
    /\ UNCHANGED <<ckpt, completed, clean, hist, ckptRole>>

Next ==
    \/ (Construct /\ UNCHANGED psnrVars)
    \/ (Resume /\ UNCHANGED psnrVars)
    \/ (EpochHead /\ UNCHANGED psnrVars)
    \/ (Sched /\ UNCHANGED psnrVars)
    \/ (SetLr /\ UNCHANGED psnrVars)
    \/ (BatchHead /\ UNCHANGED psnrVars)
    \/ (ZeroGrad /\ UNCHANGED psnrVars)
    \/ (Forward /\ UNCHANGED psnrVars)
    \/ (Loss /\ UNCHANGED psnrVars)
    \/ (Backward /\ UNCHANGED psnrVars)
    \/ (OptStep /\ UNCHANGED psnrVars)
    \/ (Dump /\ UNCHANGED psnrVars)
    \/ (Results /\ UNCHANGED psnrVars)
    \/ (IncStep /\ UNCHANGED psnrVars)
    \/ (Eval /\ UNCHANGED psnrVars)
    \/ (Save1 /\ UNCHANGED psnrVars)
    \/ (Validate /\ UNCHANGED psnrVars)
    \/ (SetStart /\ UNCHANGED psnrVars)
    \/ (Save2 /\ UNCHANGED psnrVars)
    \/ (Close /\ UNCHANGED psnrVars)
    \/ (Abort /\ UNCHANGED psnrVars)
    \/ (Restart /\ UNCHANGED psnrVars)

Spec == Init /\ [][Next]_vars


\* ------------------------------------------- psnr as a state machine
IdleMain ==
    /\ args = [epochs |-> 0, milestone |-> <<1, 2>>, no_orthog |-> FALSE,
               save_every |-> 1, resume_training |-> FALSE]
    /\ pc = "start"
    /\ epoch = 0
    /\ i = 0
    /\ training_params = NoParams
    /\ model = NoModel
    /\ optimizer = NoOptimizer
    /\ current_lr = 0
    /\ ckpt = None
    /\ restarts = 0
    /\ failedAt = "none"
    /\ completed = -1
    /\ firstStep = 0
    /\ epochFirstStep = 0
    /\ logSeq = <<>>
    /\ orthSeq = <<>>
    /\ iterTrace = <<>>
    /\ resetAt = -1
    /\ resetStep = -1
    /\ cadenceAfterReset = FALSE
    /\ clean = TRUE
    /\ hist = <<>>
    /\ epochTrace = <<>>
    /\ preCkpt = None
    /\ epochsRun = <<>>
    /\ valSeq = <<>>
    /\ saves = 0
    /\ closed = 0
    /\ firstEpoch = 0
    /\ resumedFrom = "none"
    /\ ckptRole = "none"

PsnrInit ==
    /\ IdleMain
    /\ img1 \in Images
    /\ img2 \in Images
    /\ psnr_value = None

\* lines 231-237: psnr(img1, img2)
PsnrCall ==
    /\ psnr_value = None
    /\ psnr_value' = psnr(img1, img2)
    /\ UNCHANGED <<img1, img2>>
    /\ UNCHANGED mainVars

PsnrNext == PsnrCall

SpecPsnr == PsnrInit /\ [][PsnrNext]_vars

\* ------------------------------------------------------------ claims
\* position of the process, also after it has aborted
Pos == IF pc = "aborted" THEN failedAt ELSE pc

\* the process holds a TrainingState (resume_training has returned)
Live == Pos \notin {"start", "resume"}

Range(seq) == {seq[k] : k \in DOMAIN seq}
Count(seq, x) == Cardinality({k \in DOMAIN seq : seq[k] = x})
Increasing(seq) == \A k \in DOMAIN seq : k > 1 => seq[k - 1] < seq[k]

\* C1: the step counter changes only by the increment of one per processed
\* minibatch; resume_training starts it from the persisted value when a checkpoint
\* exists and from zero when none exists; nothing else changes it while the
\* process runs.
C1_StepCounter ==
    [][IF pc = "inc" /\ pc' = "batch_head"
       THEN training_params'.step = training_params.step + 1
       ELSE IF pc = "resume" /\ pc' = "epoch_head"
       THEN training_params'.step =
                (IF ckpt # None THEN ckpt.training_params.step ELSE 0)
       ELSE IF pc' = "start"
       THEN TRUE
       ELSE training_params'.step = training_params.step]_vars

C1_Witness ==
    /\ restarts = 1
    /\ firstStep > 0
    /\ ckpt # None
    /\ training_params.step > firstStep

\* C2: a clean run of N epochs and a clean run of Ceil2(N) epochs followed by a
\* restart from its checkpoint with --epochs N both finish with step = N * NumMinibatches.
C2_ResumeIdempotence ==
    (pc = "done" /\ clean
        /\ (hist = <<args.epochs>> \/ hist = <<Ceil2(args.epochs), args.epochs>>))
    => training_params.step = args.epochs * NumMinibatches

C2_Witness ==
    /\ pc = "done"
    /\ clean
    /\ args.epochs >= 3
    /\ hist = <<Ceil2(args.epochs), args.epochs>>
    /\ training_params.step = args.epochs * NumMinibatches

\* C3 as stated: in every state in which the process holds a TrainingState, and in
\* every checkpoint, start_epoch is one past the last fully completed epoch.
C3_Original ==
    /\ Live => training_params.start_epoch = completed + 1
    /\ ckpt # None => ckpt.training_params.start_epoch = completed + 1

\* C3 amended: the same, except in memory between the assignment of line 180 and the
\* completion of the post-validation save of line 181.
C3_StartEpoch ==
    /\ (Live /\ Pos # "save2") => training_params.start_epoch = completed + 1
    /\ Pos = "save2" => training_params.start_epoch = completed + 2
    /\ ckpt # None => ckpt.training_params.start_epoch = completed + 1

C3_Witness ==
    /\ pc = "validate"
    /\ epoch >= 1
    /\ ckpt # None
    /\ ckpt.training_params.start_epoch = epoch
    /\ completed = epoch - 1

\* C4: when validation of an epoch fails, the checkpoint on disk holds the weights
\* and optimizer state the process has at that moment, which have received the
\* optimizer step of every minibatch through the epoch's last, and the step counter
\* reached after the epoch's last minibatch.
C4_ValidationFailureKeepsWeights ==
    (pc = "aborted" /\ failedAt = "validate") =>
        /\ ckpt # None
        /\ ckpt.state_dict = [updates |-> model.updates, orthog |-> model.orthog]
        /\ ckpt.optimizer = optimizer
        /\ ckpt.training_params.step = training_params.step
        /\ ckpt.training_params.step = epochFirstStep + NumMinibatches
        /\ ckpt.state_dict.updates = ckpt.training_params.step
        /\ ckpt.optimizer.state = ckpt.training_params.step

C4_Witness ==
    /\ pc = "aborted"
    /\ failedAt = "validate"
    /\ epoch >= 1
    /\ ckpt # None
    /\ ckpt.state_dict.updates = (epoch + 1) * NumMinibatches

\* C5: in a minibatch iteration the orthogonalization runs once if the pre-increment
\* step is a multiple of save_every and no_orthog is false, and not at all otherwise.
C5_RegularizationTrigger ==
    /\ pc = "inc" =>
          Count(iterTrace, "orthog") =
              (IF training_params.step % args.save_every = 0
                  /\ ~training_params.no_orthog THEN 1 ELSE 0)
    /\ pc \in (MinibatchPcs \ {"inc"}) => Count(iterTrace, "orthog") = 0
    /\ \A k \in DOMAIN orthSeq : orthSeq[k] % args.save_every = 0

C5_Witness ==
    /\ pc = "inc"
    /\ training_params.step > 0
    /\ args.save_every > 1
    /\ Count(iterTrace, "orthog") = 1

\* steps of the current process whose cadence side effects have run
Processed ==
    {s \in firstStep..(training_params.step - 1) : TRUE}
        \cup (IF Pos = "inc" THEN {training_params.step} ELSE {})

\* C6: log_train_psnr has run exactly once at each processed step that is a multiple
\* of save_every and at no other step, whatever the flag; while no_orthog is false
\* the orthogonalization has run at exactly the same steps.
C6_BatchLog ==
    Live =>
        /\ Increasing(logSeq)
        /\ Range(logSeq) = {s \in Processed : s % args.save_every = 0}
        /\ ~training_params.no_orthog => orthSeq = logSeq

C6_Witness ==
    /\ firstStep = 0
    /\ args.save_every = 2
    /\ training_params.step = 5
    /\ epoch = 2
    /\ logSeq = <<0, 2, 4>>
    /\ orthSeq = <<0, 2, 4>>

\* C7: with milestones m1 < m2, while an epoch e runs (from before its first minibatch
\* to its last save) every parameter group has the base rate if e < m1, a tenth of
\* it if m1 <= e < m2 and a hundredth of it if e >= m2.
C7_LearningRate ==
    (Pos \in ({"batch_head"} \cup MinibatchPcs \cup EpochEndPcs)
        /\ args.milestone[1] < args.milestone[2]) =>
        \A g \in Groups :
            /\ epoch < args.milestone[1] => optimizer.lr[g] = LrBase
            /\ (args.milestone[1] <= epoch /\ epoch < args.milestone[2])
                   => 10 * optimizer.lr[g] = LrBase
            /\ epoch >= args.milestone[2] => 100 * optimizer.lr[g] = LrBase

C7_Witness ==
    /\ restarts = 1
    /\ pc = "batch_head"
    /\ i = 0
    /\ training_params.step = firstStep
    /\ args.milestone[1] < args.milestone[2]
    /\ epoch = args.milestone[1]
    /\ ckpt # None
    /\ ckpt.optimizer.lr[1] = LrBase
    /\ 10 * optimizer.lr[1] = LrBase

\* the orthogonalization has run at or after the step at which it was suspended
FiredAfterReset == \E k \in DOMAIN orthSeq : orthSeq[k] >= resetStep

\* C8 as stated: a run in which reset_orthog suspended an enabled orthogonalization
\* and which then processed a cadence step in a later epoch has, when it finishes,
\* run the orthogonalization again.
C8_Original ==
    (pc = "done" /\ resetAt # -1 /\ cadenceAfterReset) => FiredAfterReset

\* C8 amended: the scheduler's signal sets no_orthog, and from then on the flag
\* stays set and the orthogonalization does not run for the rest of the process.
C8_SuspensionIsPermanent ==
    [][/\ (pc = "sched" /\ pc' = "set_lr"
              /\ epoch \in {args.milestone[1], args.milestone[2]})
           => training_params'.no_orthog
       /\ (Live /\ training_params.no_orthog /\ pc' # "start")
           => (training_params'.no_orthog /\ orthSeq' = orthSeq)]_vars

C8_Witness ==
    /\ pc = "done"
    /\ resetAt # -1
    /\ cadenceAfterReset
    /\ training_params.no_orthog
    /\ ~args.no_orthog
    /\ ~FiredAfterReset

\* C9 as stated: with flags that violate milestone[0] < milestone[1] < epochs the
\* program stops before the model and the optimizer are created.
C9_FailFast ==
    BadConfig =>
        /\ Pos = "start"
        /\ model = NoModel
        /\ optimizer = NoOptimizer
        /\ ckpt = None

\* C10: psnr returns the infinity sentinel exactly when its arguments are equal
\* pixel for pixel (zero mean squared error), and otherwise the value of the
\* logarithmic formula on a nonzero error; it never raises.
C10_PsnrZero ==
    psnr_value # None =>
        /\ psnr_value.kind \in {"inf", "log"}
        /\ (\A k \in 1..ImgLen : img1[k] = img2[k]) <=> psnr_value.kind = "inf"
        /\ psnr_value.kind = "log" => psnr_value.mse > 0

C10_Witness ==
    /\ psnr_value # None
    /\ psnr_value.kind = "inf"
    /\ img1 = img2
    /\ img1[1] > 0


\* the end-of-epoch operations of lines 161-181, in program order
EndOrder == <<"eval", "save1", "validate", "set_start", "save2">>

\* number of end-of-epoch operations that precede position p
EndDone(p) ==
    CASE p = "eval" -> 0
      [] p = "save1" -> 1
      [] p = "validate" -> 2
      [] p = "set_start" -> 3
      [] p = "save2" -> 4

\* C11: the end-of-epoch operations run once each in the order evaluation mode,
\* pre-validation save, validation, start_epoch = e+1, post-validation save, none of
\* them before the last minibatch; a completed epoch has written two checkpoints,
\* with the validation between them and start_epoch = e+1 in the second.
C11_EndOfEpochOrder ==
    /\ Pos \in ({"set_lr", "batch_head"} \cup MinibatchPcs) => epochTrace = <<>>
    /\ Pos \in EpochEndPcs =>
          /\ epochTrace = SubSeq(EndOrder, 1, EndDone(Pos))
          /\ i = NumMinibatches
          /\ Pos # "eval" => ~model.training
    /\ (Pos \in {"epoch_head", "close", "done"} /\ epochsRun # <<>>) =>
          /\ epochTrace = EndOrder
          /\ training_params.start_epoch = epochsRun[Len(epochsRun)] + 1
    /\ Pos \in {"epoch_head", "close", "done"} =>
          /\ saves = 2 * Len(epochsRun)
          /\ Len(valSeq) = Len(epochsRun)

C11_Witness ==
    /\ pc = "epoch_head"
    /\ epochTrace = EndOrder
    /\ Len(epochsRun) = 2
    /\ saves = 4
    /\ valSeq = epochsRun


\* the weights a checkpoint of model m would hold
StateDict(m) == [updates |-> m.updates, orthog |-> m.orthog]

\* C12: the validation pass changes neither the weights, the optimizer state, the
\* step nor the flag, so the two checkpoints of an epoch e are equal except for
\* start_epoch, which is e in the first and e+1 in the second.
C12_ValidationIsFrame ==
    /\ Pos = "set_start" =>
          /\ StateDict(model) = preCkpt.state_dict
          /\ optimizer = preCkpt.optimizer
          /\ training_params = preCkpt.training_params
          /\ ckpt = preCkpt
    /\ (Pos \in {"epoch_head", "close", "done"} /\ epochsRun # <<>>) =>
          LET e == epochsRun[Len(epochsRun)] IN
          /\ preCkpt # None
          /\ preCkpt.training_params.start_epoch = e
          /\ ckpt.training_params.start_epoch = e + 1
          /\ ckpt = [preCkpt EXCEPT !.training_params.start_epoch = e + 1]

C12_Witness ==
    /\ pc = "epoch_head"
    /\ Len(epochsRun) = 2
    /\ preCkpt # None
    /\ ckpt # preCkpt
    /\ ckpt.state_dict = preCkpt.state_dict
    /\ ckpt.training_params.step = preCkpt.training_params.step
    /\ ckpt.training_params.step > NumMinibatches


\* the process aborted inside a minibatch iteration
BatchFailure == pc = "aborted" /\ failedAt \in MinibatchPcs

\* what C13 and C16 share: after an abort inside a minibatch of epoch e the step has
\* not been incremented for that minibatch, epoch e has written no checkpoint and
\* run no validation, and the checkpoint on disk, if any, is the one epoch e
\* started from
BatchFailureCommon ==
    /\ training_params.step = epochFirstStep + i
    /\ i < NumMinibatches
    /\ epochTrace = <<>>
    /\ Len(valSeq) = Len(epochsRun) - 1
    /\ saves = 2 * (Len(epochsRun) - 1)
    /\ ckpt # None =>
          /\ ckpt.training_params.start_epoch = epoch
          /\ ckpt.training_params.step = epochFirstStep

\* the checkpoint on disk is the post-validation checkpoint of epoch e-1
PostOfPrevious ==
    /\ ckpt # None
    /\ ckptRole = "post"
    /\ completed = epoch - 1
    /\ ckpt.training_params.start_epoch = epoch

\* the checkpoint on disk is the pre-validation checkpoint of epoch e itself, from
\* which the process resumed
PreOfSame ==
    /\ ckpt # None
    /\ ckptRole = "pre"
    /\ resumedFrom = "pre"
    /\ epoch = firstEpoch
    /\ completed = epoch - 1
    /\ ckpt.training_params.start_epoch = epoch

\* C13 as stated: after a failure inside a minibatch of epoch e the run has stopped
\* with the step not incremented, no validation and no checkpoint for epoch e, and
\* the checkpoint on disk is the post-validation checkpoint of the previously
\* completed epoch, or there is none.
C13_Original ==
    BatchFailure =>
        /\ BatchFailureCommon
        /\ (ckpt = None /\ completed = -1) \/ PostOfPrevious

\* C13 amended: the same, where the checkpoint on disk may also be the
\* pre-validation checkpoint of epoch e from which the process resumed.
C13_BatchFailureAborts ==
    BatchFailure =>
        /\ BatchFailureCommon
        /\ (ckpt = None /\ completed = -1) \/ PostOfPrevious \/ PreOfSame

C13_Witness ==
    /\ BatchFailure
    /\ failedAt = "backward"
    /\ i = 1
    /\ epoch = 1
    /\ PostOfPrevious


\* the operations of lines 89-120, in program order
BodyOrder == <<"zero_grad", "forward", "loss", "backward", "opt_step">>

\* the cadence side effects of a minibatch whose pre-increment step is s
SideEffects(s) ==
    (IF s % args.save_every = 0 /\ ~training_params.no_orthog
     THEN <<"orthog">> ELSE <<>>)
    \o (IF s % args.save_every = 0 THEN <<"log">> ELSE <<>>)

\* iterTrace without the debug dump, which C18 is about
NoDump(seq) == SelectSeq(seq, LAMBDA x : x \notin DumpEvents)

\* number of operations of BodyOrder that precede position p
BodyDone(p) ==
    CASE p = "zero_grad" -> 0
      [] p = "forward" -> 1
      [] p = "loss" -> 2
      [] p = "backward" -> 3
      [] p = "opt_step" -> 4
      [] p \in {"dump", "results", "inc"} -> 5

\* C14: minibatches are processed one at a time in loader order; within one the
\* operations run in the order zero-gradients, forward, loss, backpropagation,
\* optimizer step, regularization, batch log, step increment, with one optimizer
\* step per minibatch; the cadence test reads the step before its increment, and
\* the regularization acts on the weights the same minibatch's optimizer step wrote.
C14_MinibatchOrder ==
    /\ Pos \in MinibatchPcs =>
          /\ i = training_params.step - epochFirstStep
          /\ i < NumMinibatches
          /\ NoDump(iterTrace) =
                SubSeq(BodyOrder, 1, BodyDone(Pos))
                    \o (IF Pos = "inc" THEN SideEffects(training_params.step)
                        ELSE <<>>)
          /\ model.updates = training_params.step + (IF BodyDone(Pos) = 5 THEN 1 ELSE 0)
          /\ optimizer.state = model.updates
          /\ (Pos = "inc" /\ Count(iterTrace, "orthog") = 1) =>
                /\ orthSeq[Len(orthSeq)] = training_params.step
                /\ model.updates = training_params.step + 1
    /\ (Pos = "batch_head" /\ i > 0) =>
          /\ i = training_params.step - epochFirstStep
          /\ NoDump(iterTrace) =
                BodyOrder \o SideEffects(training_params.step - 1) \o <<"inc">>
          /\ model.updates = training_params.step
          /\ optimizer.state = training_params.step

C14_Witness ==
    /\ pc = "batch_head"
    /\ i = NumMinibatches
    /\ epoch = 1
    /\ args.save_every = 2
    /\ iterTrace = BodyOrder \o <<"inc">>
    /\ model.orthog = 2


\* ------------------------------------------------ runs without failure
\* main() executes statement after statement: with a finite loader and no exception
\* every enabled step is eventually taken
NextNoFail ==
    \/ (Construct /\ UNCHANGED psnrVars)
    \/ (Resume /\ UNCHANGED psnrVars)
    \/ (EpochHead /\ UNCHANGED psnrVars)
    \/ (Sched /\ UNCHANGED psnrVars)
    \/ (SetLr /\ UNCHANGED psnrVars)
    \/ (BatchHead /\ UNCHANGED psnrVars)
    \/ (ZeroGrad /\ UNCHANGED psnrVars)
    \/ (Forward /\ UNCHANGED psnrVars)
    \/ (Loss /\ UNCHANGED psnrVars)
    \/ (Backward /\ UNCHANGED psnrVars)
    \/ (OptStep /\ UNCHANGED psnrVars)
    \/ (Dump /\ UNCHANGED psnrVars)
    \/ (Results /\ UNCHANGED psnrVars)
    \/ (IncStep /\ UNCHANGED psnrVars)
    \/ (Eval /\ UNCHANGED psnrVars)
    \/ (Save1 /\ UNCHANGED psnrVars)
    \/ (Validate /\ UNCHANGED psnrVars)
    \/ (SetStart /\ UNCHANGED psnrVars)
    \/ (Save2 /\ UNCHANGED psnrVars)
    \/ (Close /\ UNCHANGED psnrVars)
    \/ (Restart /\ UNCHANGED psnrVars)

SpecNoFail == Init /\ [][NextNoFail]_vars /\ WF_vars(NextNoFail)

\* the epochs firstEpoch, ..., epochs-1 in increasing order
EpochsToRun ==
    [k \in 1..(IF args.epochs > firstEpoch THEN args.epochs - firstEpoch ELSE 0)
        |-> firstEpoch + k - 1]

\* what a finished process has done
FinishedRight ==
    /\ epochsRun = EpochsToRun
    /\ valSeq = epochsRun
    /\ saves = 2 * Len(epochsRun)
    /\ closed = 1
    /\ training_params.step = firstStep + Len(epochsRun) * NumMinibatches
    /\ firstEpoch >= args.epochs =>
          /\ training_params.step = firstStep
          /\ logSeq = <<>>
          /\ saves = 0
          /\ epochsRun = <<>>

\* C15: without failure every started process reaches the end of main, having run
\* the epochs start_epoch .. epochs-1 once each in increasing order with one
\* validation each, and having closed the logger once, after its last save; with
\* start_epoch >= epochs it processes no minibatch and writes no checkpoint.
C15_RunFinishes ==
    /\ [](pc = "done" => FinishedRight)
    /\ [](pc # "done" => closed = 0)
    /\ (pc = "start") ~> (pc = "done")

C15_Witness ==
    /\ pc = "done"
    /\ restarts = 1
    /\ firstEpoch = 2
    /\ epochsRun = <<2, 3>>
    /\ closed = 1


\* the process was interrupted while the minibatches of an epoch were in progress
MidEpochInterruption ==
    pc = "aborted" /\ failedAt \in (MinibatchPcs \cup {"batch_head"})

\* a checkpoint is written only by the two saves after the minibatch loop, and it
\* stores the step reached at the end of that loop
WrittenBetweenEpochs ==
    [][ckpt' # ckpt =>
          /\ pc \in {"save1", "save2"}
          /\ i = NumMinibatches
          /\ training_params.step = epochFirstStep + NumMinibatches
          /\ ckpt'.training_params.step = training_params.step]_vars

\* C16 as stated: checkpoints are written only between the last minibatch of an epoch
\* and the first of the next, with the step reached at the end of the loop, and an
\* interruption in the middle of epoch e leaves the post-validation checkpoint of
\* epoch e-1 as the latest one (none before the first epoch has completed).
C16_Original ==
    /\ WrittenBetweenEpochs
    /\ [](MidEpochInterruption => ((ckpt = None /\ completed = -1) \/ PostOfPrevious))

\* C16 amended: the same, where the latest checkpoint may also be the pre-validation
\* checkpoint of epoch e from which the process resumed.
C16_CheckpointsBetweenEpochs ==
    /\ WrittenBetweenEpochs
    /\ [](MidEpochInterruption =>
             ((ckpt = None /\ completed = -1) \/ PostOfPrevious \/ PreOfSame))

C16_Witness ==
    /\ MidEpochInterruption
    /\ epoch = 1
    /\ i = 1
    /\ PreOfSame
    /\ ckpt.training_params.step = 2 * NumMinibatches
    /\ training_params.step = ckpt.training_params.step + 1

\* the process is between the two saves of the current epoch (lines 164-181)
BetweenSaves == Pos \in {"validate", "set_start", "save2"}

\* one process was interrupted between the two saves, and the next one, started
\* from the checkpoint it left, holds a TrainingState
ResumedBetweenSaves == restarts = 1 /\ resumedFrom = "pre" /\ Live

\* the step at which a run of a.epochs epochs ends when nothing interrupts it
UninterruptedFinalStep(a) == a.epochs * NumMinibatches

\* C17: the pre-validation checkpoint of epoch e stores start_epoch = e and the step
\* already advanced past the minibatches of epoch e; a run interrupted between the two
\* saves of epoch e and then resumed trains epoch e again starting from that step,
\* and it ends one epoch's number of minibatches above the final step of an
\* uninterrupted run.
C17_PreValidationResume ==
    /\ BetweenSaves =>
          /\ ckptRole = "pre"
          /\ ckpt.training_params.start_epoch = epoch
          /\ ckpt.training_params.step = epochFirstStep + NumMinibatches
          /\ ckpt.training_params.step = training_params.step
    /\ (restarts = 0 /\ ckptRole = "pre") =>
          ckpt.training_params.step
              = (ckpt.training_params.start_epoch + 1) * NumMinibatches
    /\ (restarts = 1 /\ ckptRole = "pre" /\ Pos \in {"start", "resume"}) =>
          ckpt.training_params.step
              = (ckpt.training_params.start_epoch + 1) * NumMinibatches
    /\ ResumedBetweenSaves =>
          /\ firstStep = (firstEpoch + 1) * NumMinibatches
          /\ firstEpoch < args.epochs
          /\ (epochsRun # <<>> => epochsRun[1] = firstEpoch)
          /\ (Pos \in {"sched", "set_lr"} /\ Len(epochsRun) <= 1) =>
                training_params.step = (epoch + 1) * NumMinibatches
    /\ (pc = "done" /\ restarts = 0) =>
          training_params.step = UninterruptedFinalStep(args)
    /\ (pc = "done" /\ ResumedBetweenSaves) =>
          training_params.step = UninterruptedFinalStep(args) + NumMinibatches

C17_Witness ==
    /\ pc = "done"
    /\ ResumedBetweenSaves
    /\ args.epochs = 3
    /\ firstEpoch = 1
    /\ epochsRun = <<1, 2>>
    /\ training_params.step = 4 * NumMinibatches


\* --------------------------------------------- a long run at a dump step
Min2(x, y) == IF x < y THEN x ELSE y

\* the first step of save_training_steps, and the last epoch that starts at or
\* before it
FirstDumpStep == CHOOSE s \in save_training_steps : \A t \in save_training_steps : s <= t
DumpEpoch == FirstDumpStep \div NumMinibatches

\* the post-validation checkpoint that k >= 1 epochs run without interruption under
\* the flags a leave in the run directory: k * NumMinibatches optimizer steps, the
\* rate of epoch k-1, and one orthogonalization per cadence step of the epochs before
\* the first milestone
CheckpointAfter(a, k) ==
    LET steps == k * NumMinibatches
        orthEpochs == IF a.no_orthog THEN 0
                      ELSE Min2(k, Min2(a.milestone[1], a.milestone[2]))
        orthSteps == (orthEpochs * NumMinibatches + a.save_every - 1) \div a.save_every
    IN save_model_checkpoint(
           [updates |-> steps, orthog |-> orthSteps, training |-> FALSE],
           SetGroups([NewOptimizer EXCEPT !.state = steps],
                     lr_scheduler(k - 1, a).current_lr),
           [step        |-> steps,
            start_epoch |-> NextStartEpoch(k - 1),
            no_orthog   |-> (a.no_orthog
                             \/ Min2(a.milestone[1], a.milestone[2]) < k)])

\* CheckpointAfter is what the first process of a run has on disk after each epoch
CheckpointAfterIsReached ==
    (restarts = 0 /\ ckptRole = "post") => ckpt = CheckpointAfter(args, completed + 1)

\* the program is started with --resume_training on the run directory of a run that
\* has completed DumpEpoch epochs, for one or two epochs more
DumpInit ==
    /\ args \in [epochs : (DumpEpoch + 1)..(DumpEpoch + 2), milestone : Milestones,
                 no_orthog : BOOLEAN, save_every : 1..MaxSaveEvery,
                 resume_training : {TRUE}]
    /\ pc = "start"
    /\ epoch = 0
    /\ i = 0
    /\ training_params = NoParams
    /\ model = NoModel
    /\ optimizer = NoOptimizer
    /\ current_lr = 0
    /\ ckpt = CheckpointAfter(args, DumpEpoch)
    /\ ckptRole = "post"
    /\ completed = DumpEpoch - 1
    /\ restarts = 1
    /\ failedAt = "none"
    /\ clean = TRUE
    /\ hist = <<DumpEpoch>>
    /\ firstStep = 0
    /\ epochFirstStep = 0
    /\ logSeq = <<>>
    /\ orthSeq = <<>>
    /\ iterTrace = <<>>
    /\ resetAt = -1
    /\ resetStep = -1
    /\ cadenceAfterReset = FALSE
    /\ epochTrace = <<>>
    /\ preCkpt = None
    /\ epochsRun = <<>>
    /\ valSeq = <<>>
    /\ saves = 0
    /\ closed = 0
    /\ firstEpoch = 0
    /\ resumedFrom = "none"
    /\ IdlePsnr

\* the statements of main(), with no failure other than those of the image dump
NextDump ==
    \/ (Construct /\ UNCHANGED psnrVars)
    \/ (Resume /\ UNCHANGED psnrVars)
    \/ (EpochHead /\ UNCHANGED psnrVars)
    \/ (Sched /\ UNCHANGED psnrVars)
    \/ (SetLr /\ UNCHANGED psnrVars)
    \/ (BatchHead /\ UNCHANGED psnrVars)
    \/ (ZeroGrad /\ UNCHANGED psnrVars)
    \/ (Forward /\ UNCHANGED psnrVars)
    \/ (Loss /\ UNCHANGED psnrVars)
    \/ (Backward /\ UNCHANGED psnrVars)
    \/ (OptStep /\ UNCHANGED psnrVars)
    \/ (Dump /\ UNCHANGED psnrVars)
    \/ (Results /\ UNCHANGED psnrVars)
    \/ (IncStep /\ UNCHANGED psnrVars)
    \/ (Eval /\ UNCHANGED psnrVars)
    \/ (Save1 /\ UNCHANGED psnrVars)
    \/ (Validate /\ UNCHANGED psnrVars)
    \/ (SetStart /\ UNCHANGED psnrVars)
    \/ (Save2 /\ UNCHANGED psnrVars)
    \/ (Close /\ UNCHANGED psnrVars)

SpecDump == DumpInit /\ [][NextDump]_vars

\* the step of the current minibatch iteration before its increment
PreIncStep ==
    IF "inc" \in Range(iterTrace) THEN training_params.step - 1 ELSE training_params.step

\* the debug dump has run in the current minibatch iteration
Dumped == \E k \in DOMAIN iterTrace : iterTrace[k] \in DumpEvents

\* C18: the debug dump runs in exactly the minibatch iterations whose pre-increment
\* step is in save_training_steps, once, right after the optimizer step; it changes
\* neither the TrainingState (step, no_orthog, start_epoch) nor the model parameters;
\* a failure to write an image is caught in save_image_with_absolute_path and the
\* run goes on to the cadence block instead of aborting.
C18_DebugDump ==
    /\ [][pc = "dump" =>
            /\ pc' = "results"
            /\ training_params' = training_params
            /\ model' = model
            /\ optimizer' = optimizer
            /\ ckpt' = ckpt
            /\ (training_params.step \in save_training_steps =>
                   \E ev \in DumpEvents : iterTrace' = Append(iterTrace, ev))
            /\ (training_params.step \notin save_training_steps =>
                   iterTrace' = iterTrace)]_vars
    /\ [][pc # "dump" =>
            \A k \in DOMAIN iterTrace' :
                iterTrace'[k] \in DumpEvents =>
                    k \in DOMAIN iterTrace /\ iterTrace[k] = iterTrace'[k]]_vars
    /\ [](Dumped <=> (/\ PreIncStep \in save_training_steps
                      /\ "opt_step" \in Range(iterTrace)
                      /\ pc # "dump"))
    /\ [](\A k \in DOMAIN iterTrace :
             iterTrace[k] \in DumpEvents =>
                 /\ k = Len(BodyOrder) + 1
                 /\ SubSeq(iterTrace, 1, k - 1) = BodyOrder)
    /\ [](pc # "aborted")

C18_Witness ==
    /\ pc = "batch_head"
    /\ training_params.step = FirstDumpStep + 1
    /\ iterTrace = BodyOrder \o <<"dump_error", "log", "inc">>
    /\ model.updates = training_params.step
    /\ training_params.start_epoch = DumpEpoch

====
